---- MODULE Spec2Model ----
(***************************************************************************)
(* A model of the App component of image_processing_frontend/src/App.js:   *)
(* the React state of the component, the three asynchronous handlers       *)
(* (fetchImages, doUpload, doProcess) with the values their closures       *)
(* capture, the form handlers, and the memoized operation normalizer       *)
(* parsedOps.                                                              *)
(***************************************************************************)
EXTENDS Integers, Sequences, FiniteSets, TLC

(***************************************************************************)
(* Bounds of the model.                                                    *)
(***************************************************************************)
\* Longest text typed into a numeric field, in characters.
MaxLen == 3
\* Number of asynchronous handler invocations that may be in flight at once.
MaxFlows == 2

(***************************************************************************)
(* Texts and JavaScript numbers.                                           *)
(*                                                                         *)
(* A text is a sequence of one-character strings.  A number is a record    *)
(* [k, m, d]: k = "num" is the finite value m / 10^d (kept canonical: no   *)
(* trailing zero among the d fraction digits), k = "inf" is +Infinity or   *)
(* -Infinity by the sign of m, k = "nan" is NaN, and k = "null" is the     *)
(* null that toInt and toNonNegInt return.  The sign of zero is not kept   *)
(* (-0 and 0 compare equal in the code and serialize alike).               *)
(***************************************************************************)
Alphabet == {"-", ".", "0", "1"}

Digits == {"0", "1", "2", "3", "4", "5", "6", "7", "8", "9"}

InfinityText == <<"I", "n", "f", "i", "n", "i", "t", "y">>

TextsOfLen(n) == [1..n -> Alphabet]

\* Texts beyond the alphabet: the infinities, texts with letters, and the
\* usual sizes.
SampleTexts ==
    {InfinityText, <<"-">> \o InfinityText,
     <<"a", "b", "c">>, <<"1", "a">>, <<"8", "0", "0">>, <<"6", "0", "0">>}

Texts == UNION {TextsOfLen(n) : n \in 0..MaxLen} \cup SampleTexts

NaN == [k |-> "nan", m |-> 0, d |-> 0]

Null == [k |-> "null", m |-> 0, d |-> 0]

Inf(sign) == [k |-> "inf", m |-> sign, d |-> 0]

RECURSIVE Pow10(_)
Pow10(n) == IF n = 0 THEN 1 ELSE 10 * Pow10(n - 1)

RECURSIVE Canon(_, _)
Canon(m, d) == IF d > 0 /\ m % 10 = 0 THEN Canon(m \div 10, d - 1) ELSE [k |-> "num", m |-> m, d |-> d]

Num(m, d) == Canon(m, d)

DigitVal(c) == CHOOSE v \in 0..9 : c = <<"0", "1", "2", "3", "4", "5", "6", "7", "8", "9">>[v + 1]

RECURSIVE DigitsVal(_)
DigitsVal(s) == IF s = <<>> THEN 0 ELSE 10 * DigitsVal(SubSeq(s, 1, Len(s) - 1)) + DigitVal(s[Len(s)])

\* An unsigned decimal literal: digits, digits "." digits?, or "." digits.
UnsignedDecimal(s) ==
    LET dots == {i \in 1..Len(s) : s[i] = "."}
        bad == {i \in 1..Len(s) : s[i] \notin Digits \cup {"."}}
    IN  IF bad # {} \/ Cardinality(dots) > 1 THEN NaN
        ELSE IF dots = {} THEN (IF s = <<>> THEN NaN ELSE Num(DigitsVal(s), 0))
        ELSE LET p == CHOOSE i \in dots : TRUE
                 ip == SubSeq(s, 1, p - 1)
                 fp == SubSeq(s, p + 1, Len(s))
             IN  IF ip = <<>> /\ fp = <<>> THEN NaN
                 ELSE Num(DigitsVal(ip \o fp), Len(fp))

Negate(n) == IF n.k = "nan" THEN n ELSE [n EXCEPT !.m = 0 - n.m]

Unsigned(s) == IF s = InfinityText THEN Inf(1) ELSE UnsignedDecimal(s)

\* Number(v) of a string v: the empty string is 0, an optional sign, then
\* Infinity or a decimal literal; everything else is NaN.
Number(v) ==
    IF v = <<>> THEN Num(0, 0)
    ELSE IF v[1] = "-" THEN Negate(Unsigned(Tail(v)))
    ELSE IF v[1] = "+" THEN Unsigned(Tail(v))
    ELSE Unsigned(v)

Number_isFinite(n) == n.k = "num"

Number_isNaN(n) == n.k = "nan"

Gt0(n) == n.k \in {"num", "inf"} /\ n.m > 0

Ge0(n) == n.k \in {"num", "inf"} /\ n.m >= 0

Math_floor(n) == Num(n.m \div Pow10(n.d), 0)

\* JavaScript truthiness of a number or null (the test `rw && rh`).
Truthy(x) == x.k = "inf" \/ (x.k = "num" /\ x.m # 0)

toInt(v) ==
    LET n == Number(v)
    IN  IF Number_isFinite(n) /\ Gt0(n) THEN Math_floor(n) ELSE Null

toNonNegInt(v) ==
    LET n == Number(v)
    IN  IF Number_isFinite(n) /\ Ge0(n) THEN Math_floor(n) ELSE Null

One == Num(1, 0)

\* `rw !== null && rh !== null` in place of `rw && rh`.
ResizeIncluded_NotNull(rw, rh) == rw # Null /\ rh # Null

ResizeIncluded(rw, rh) == Truthy(rw) /\ Truthy(rh)

CropIncluded(cx, cy, cw, ch) == cx # Null /\ cy # Null /\ Truthy(cw) /\ Truthy(ch)

\* The grayscale key set only for a ticked checkbox.
ComputeParsedOps_OmitFalse(o, b, c) ==
    LET r  == Number(o.blur.radius)
        rw == toInt(o.resize.width)
        rh == toInt(o.resize.height)
        cx == toNonNegInt(o.crop.x)
        cy == toNonNegInt(o.crop.y)
        cw == toInt(o.crop.width)
        ch == toInt(o.crop.height)
        bf == Number(b)
        cf == Number(c)
        keys == (IF o.grayscale = TRUE THEN {"grayscale"} ELSE {})
                \cup (IF ~Number_isNaN(r) /\ Gt0(r) THEN {"blur"} ELSE {})
                \cup (IF ResizeIncluded(rw, rh) THEN {"resize"} ELSE {})
                \cup (IF CropIncluded(cx, cy, cw, ch) THEN {"crop"} ELSE {})
                \cup (IF ~Number_isNaN(bf) /\ Gt0(bf) /\ bf # One THEN {"brightness"} ELSE {})
                \cup (IF ~Number_isNaN(cf) /\ Gt0(cf) /\ cf # One THEN {"contrast"} ELSE {})
    IN  [key \in keys |->
            CASE key = "grayscale" -> TRUE
              [] key = "blur" -> [radius |-> r]
              [] key = "resize" -> [width |-> rw, height |-> rh]
              [] key = "crop" -> [x |-> cx, y |-> cy, width |-> cw, height |-> ch]
              [] key = "brightness" -> [factor |-> bf]
              [] key = "contrast" -> [factor |-> cf]]

\* The body of the useMemo: the normalized operation set of a form state.
ComputeParsedOps(o, b, c) ==
    LET r  == Number(o.blur.radius)
        rw == toInt(o.resize.width)
        rh == toInt(o.resize.height)
        cx == toNonNegInt(o.crop.x)
        cy == toNonNegInt(o.crop.y)
        cw == toInt(o.crop.width)
        ch == toInt(o.crop.height)
        bf == Number(b)
        cf == Number(c)
        keys == {"grayscale"}
                \cup (IF ~Number_isNaN(r) /\ Gt0(r) THEN {"blur"} ELSE {})
                \cup (IF ResizeIncluded(rw, rh) THEN {"resize"} ELSE {})
                \cup (IF CropIncluded(cx, cy, cw, ch) THEN {"crop"} ELSE {})
                \cup (IF ~Number_isNaN(bf) /\ Gt0(bf) /\ bf # One THEN {"brightness"} ELSE {})
                \cup (IF ~Number_isNaN(cf) /\ Gt0(cf) /\ cf # One THEN {"contrast"} ELSE {})
    IN  [key \in keys |->
            CASE key = "grayscale" -> (o.grayscale = TRUE)
              [] key = "blur" -> [radius |-> r]
              [] key = "resize" -> [width |-> rw, height |-> rh]
              [] key = "crop" -> [x |-> cx, y |-> cy, width |-> cw, height |-> ch]
              [] key = "brightness" -> [factor |-> bf]
              [] key = "contrast" -> [factor |-> cf]]

\* What reading a property that is not there yields; Number of it is NaN.
Undefined == <<"undefined">>

\* initialOps with `blur: {}`.
initialOps_BlurUndefined ==
    [resize |-> [width |-> <<>>, height |-> <<>>],
     crop |-> [x |-> <<>>, y |-> <<>>, width |-> <<>>, height |-> <<>>],
     grayscale |-> FALSE,
     sepia |-> FALSE,
     blur |-> [radius |-> Undefined]]

initialOps ==
    [resize |-> [width |-> <<>>, height |-> <<>>],
     crop |-> [x |-> <<>>, y |-> <<>>, width |-> <<>>, height |-> <<>>],
     grayscale |-> FALSE,
     sepia |-> FALSE,
     blur |-> [radius |-> <<>>]]

VARIABLES uploading, processing, error, notice, file, images, selectedImageId,
          ops, brightness, contrast, parsedOps, flows

vars == <<uploading, processing, error, notice, file, images, selectedImageId,
          ops, brightness, contrast, parsedOps, flows>>

(***************************************************************************)
(* The backend gateway, as the handlers see it.                            *)
(*                                                                         *)
(* An Image of a list or of an upload's answer is modelled by its image_id *)
(* (the only field the handlers read).  A response is a rejected fetch     *)
(* (type "reject"), a non-2xx response (type "error") or a 2xx response    *)
(* (type "ok"); body says what res.json() yields.                          *)
(***************************************************************************)
ImageIds == {"img-1", "img-2"}

Files == {"a.png"}

\* useState(null) of file, and `e.target.files?.[0] || null`.
NoFile == "null"

StatusCodes == {404, 500}

DetailMessage == "Image not found"

\* What the runtime puts in e.message for a rejected fetch, for res.json()
\* of a body that is not JSON, and for reading .length of null.
NetworkErrorMessage == "Failed to fetch"

JsonErrorMessage == "Unexpected token < in JSON at position 0"

NullLengthMessage == "Cannot read properties of null (reading 'length')"

RECURSIVE SeqsOver(_, _)
SeqsOver(S, n) ==
    IF n = 0 THEN {<<>>}
    ELSE LET shorter == SeqsOver(S, n - 1)
         IN  shorter \cup {Append(s, x) : s \in shorter, x \in S}

Range(s) == {s[i] : i \in 1..Len(s)}

\* The lists GET /images can answer: no image twice.
ImageLists == {s \in SeqsOver(ImageIds, Cardinality(ImageIds)) : Cardinality(Range(s)) = Len(s)}

JsonArray(items) == [kind |-> "array", items |-> items]

JsonNull == [kind |-> "null", items |-> <<>>]

JsonObject == [kind |-> "object", items |-> <<>>]

Response(type, status, body, detail, image_id, items) ==
    [type |-> type, status |-> status, body |-> body, detail |-> detail,
     image_id |-> image_id, items |-> items]

NoResponse == Response("none", 0, "none", "", "", <<>>)

Rejected == Response("reject", 0, "none", "", "", <<>>)

\* Non-2xx responses: the body is not JSON, JSON without detail, JSON with an
\* empty detail, or JSON with a detail message.
ErrorResponses ==
    {Response("error", st, b, "", "", <<>>) : st \in StatusCodes, b \in {"unparseable", "object", "detail"}}
    \cup {Response("error", st, "detail", DetailMessage, "", <<>>) : st \in StatusCodes}

UploadResponses ==
    {Rejected} \cup ErrorResponses
    \cup {Response("ok", 200, "unparseable", "", "", <<>>)}
    \cup {Response("ok", 200, "image", "", id, <<>>) : id \in ImageIds}

ProcessResponses ==
    {Rejected} \cup ErrorResponses
    \cup {Response("ok", 200, "unparseable", "", "", <<>>),
          Response("ok", 200, "object", "", "", <<>>)}

\* fetchImages reads only the status of a non-2xx response.
ListResponses ==
    {Rejected} \cup {Response("error", st, "object", "", "", <<>>) : st \in StatusCodes}
    \cup {Response("ok", 200, b, "", "", <<>>) : b \in {"unparseable", "null", "object"}}
    \cup {Response("ok", 200, "array", "", "", l) : l \in ImageLists}

\* safeReadJson(res), then `msg?.detail || fallback`.
safeReadJson(res) == IF res.body = "unparseable" THEN "null" ELSE res.body

\* The fallback alone, the detail never read.
FailureMessage_NoDetail(res, what) == what \o " failed (" \o ToString(res.status) \o ")"

FailureMessage(res, what) ==
    IF safeReadJson(res) = "detail" /\ res.detail # ""
    THEN res.detail
    ELSE what \o " failed (" \o ToString(res.status) \o ")"

(***************************************************************************)
(* Handler invocations in flight.  Each holds the call it awaits and what  *)
(* its closure captured when the handler was invoked: selectedImageId (the *)
(* value fetchImages tests), and for an upload the answer `data`.          *)
(***************************************************************************)
NoOperations == [key \in {} |-> TRUE]

Flow(kind, call, sel, f, ops_, data, refreshes) ==
    [kind |-> kind, call |-> call, selectedImageId |-> sel, file |-> f,
     operations |-> ops_, data |-> data, refreshes |-> refreshes]

Idle == Flow("none", "none", "", NoFile, NoOperations, "", 0)

FlowIds == 1..MaxFlows

FreeSlots == {f \in FlowIds : flows[f] = Idle}

FreeSlot == CHOOSE f \in FreeSlots : \A g \in FreeSlots : f <= g

(***************************************************************************)
(* The state after the first render and its mount effect: every useState   *)
(* at its initial value, and the mount effect's fetchImages in flight,     *)
(* its closure holding the first render's selectedImageId.                 *)
(***************************************************************************)
MountFlow == Flow("mount", "list", "", NoFile, NoOperations, "", 1)

Init ==
    /\ uploading = FALSE
    /\ processing = FALSE
    /\ error = ""
    /\ notice = ""
    /\ file = NoFile
    /\ images = JsonArray(<<>>)
    /\ selectedImageId = ""
    /\ ops = initialOps
    /\ brightness = <<"1">>
    /\ contrast = <<"1">>
    /\ parsedOps = ComputeParsedOps(initialOps, <<"1">>, <<"1">>)
    /\ flows = [f \in FlowIds |-> IF f = 1 THEN MountFlow ELSE Idle]

formVars == <<ops, brightness, contrast, parsedOps>>

(***************************************************************************)
(* fetchImages, from the answer of GET /images on: what it sets, given the *)
(* selectedImageId its closure holds.  setImages(data) comes before the    *)
(* read of data.length, which throws for a null body.                      *)
(***************************************************************************)
ListFailed(res) ==
    \/ res.type # "ok"
    \/ res.body \in {"unparseable", "null"}

ListError(res) ==
    CASE res.type = "reject" -> NetworkErrorMessage
      [] res.type = "error" -> "Failed to list images (" \o ToString(res.status) \o ")"
      [] res.body = "unparseable" -> JsonErrorMessage
      [] res.body = "null" -> NullLengthMessage
      [] OTHER -> error

\* fetchImages without its setImages(data).
ListImages_NotSet(res) == images

ListImages(res) ==
    CASE res.type = "ok" /\ res.body = "array" -> JsonArray(res.items)
      [] res.type = "ok" /\ res.body = "null" -> JsonNull
      [] res.type = "ok" /\ res.body = "object" -> JsonObject
      [] OTHER -> images

AutoSelects(closureSel, res) ==
    res.type = "ok" /\ res.body = "array" /\ closureSel = "" /\ Len(res.items) > 0

ListSelection(closureSel, res) ==
    IF AutoSelects(closureSel, res) THEN res.items[1] ELSE selectedImageId

\* What doUpload and doProcess do once `await fetchImages()` has returned:
\* doUpload selects the uploaded image, and each clears its own busy flag.
\* doUpload selecting the uploaded image before the refresh, not after.
SelectionAfterList_Early(f, res) ==
    IF flows[f].kind = "upload" /\ ~AutoSelects(flows[f].selectedImageId, res)
    THEN flows[f].data
    ELSE ListSelection(flows[f].selectedImageId, res)

SelectionAfterList(f, res) ==
    IF flows[f].kind = "upload"
    THEN flows[f].data
    ELSE ListSelection(flows[f].selectedImageId, res)

\* The busy flag cleared at the end of the try block instead of in finally.
UploadingAfterList_NoFinally(f, res) ==
    IF flows[f].kind = "upload" /\ ~ListFailed(res) THEN FALSE ELSE uploading

UploadingAfterList(f, res) == IF flows[f].kind = "upload" THEN FALSE ELSE uploading

ProcessingAfterList(f, res) == IF flows[f].kind = "process" THEN FALSE ELSE processing

\* The calls the handlers dispatch, with what their closures hold.
UploadCall == Flow("upload", "upload", selectedImageId, file, NoOperations, "", 0)

\* doProcess sending the operation set of the untouched form.
ProcessCall_Stale ==
    Flow("process", "process", selectedImageId, NoFile,
         ComputeParsedOps(initialOps, <<"1">>, <<"1">>), "", 0)

ProcessCall == Flow("process", "process", selectedImageId, NoFile, parsedOps, "", 0)

(***************************************************************************)
(* The handlers.                                                           *)
(***************************************************************************)
onFileChange(picked) ==
    /\ file' = picked
    /\ error' = ""
    /\ notice' = ""
    /\ UNCHANGED <<uploading, processing, images, selectedImageId, flows>>
    /\ UNCHANGED formVars

\* doUpload without its test of file.
doUpload_Unguarded ==
    /\ FreeSlots # {}
    /\ uploading' = TRUE
    /\ error' = ""
    /\ notice' = ""
    /\ flows' = [flows EXCEPT ![FreeSlot] = UploadCall]
    /\ UNCHANGED <<processing, file, images, selectedImageId>>
    /\ UNCHANGED formVars

\* doUpload up to its first await.
doUpload ==
    /\ IF file = NoFile
       THEN /\ error' = "Please choose an image to upload."
            /\ UNCHANGED <<uploading, notice, flows>>
       ELSE /\ FreeSlots # {}
            /\ uploading' = TRUE
            /\ error' = ""
            /\ notice' = ""
            /\ flows' = [flows EXCEPT ![FreeSlot] = UploadCall]
    /\ UNCHANGED <<processing, file, images, selectedImageId>>
    /\ UNCHANGED formVars

\* doUpload from the answer of POST /images/upload to its next await, or to
\* its end when the answer is a failure.
UploadResponse(f, res) ==
    /\ flows[f].call = "upload"
    /\ IF res.type = "ok" /\ res.body = "image"
       THEN /\ notice' = "Upload successful."
            /\ file' = NoFile
            /\ flows' = [flows EXCEPT ![f].call = "list", ![f].file = NoFile,
                                      ![f].data = res.image_id, ![f].refreshes = @ + 1]
            /\ UNCHANGED <<error, uploading>>
       ELSE /\ error' = CASE res.type = "reject" -> NetworkErrorMessage
                          [] res.type = "error" -> FailureMessage(res, "Upload")
                          [] OTHER -> JsonErrorMessage
            /\ uploading' = FALSE
            /\ flows' = [flows EXCEPT ![f] = Idle]
            /\ UNCHANGED <<notice, file>>
    /\ UNCHANGED <<processing, images, selectedImageId>>
    /\ UNCHANGED formVars

\* doProcess setting the error for an empty selection and going on.
doProcess_NoReturn ==
    /\ FreeSlots # {}
    /\ processing' = TRUE
    /\ error' = IF selectedImageId = "" THEN "Please select an image to process." ELSE ""
    /\ notice' = ""
    /\ flows' = [flows EXCEPT ![FreeSlot] = ProcessCall]
    /\ UNCHANGED <<uploading, file, images, selectedImageId>>
    /\ UNCHANGED formVars

\* doProcess rejecting an operation set that holds grayscale false alone.
doProcess_BeyondGrayscale ==
    /\ IF selectedImageId = ""
       THEN /\ error' = "Please select an image to process."
            /\ UNCHANGED <<processing, notice, flows>>
       ELSE IF DOMAIN parsedOps = {"grayscale"} /\ ~parsedOps.grayscale
       THEN /\ error' = "Choose at least one operation."
            /\ UNCHANGED <<processing, notice, flows>>
       ELSE /\ FreeSlots # {}
            /\ processing' = TRUE
            /\ error' = ""
            /\ notice' = ""
            /\ flows' = [flows EXCEPT ![FreeSlot] = ProcessCall]
    /\ UNCHANGED <<uploading, file, images, selectedImageId>>
    /\ UNCHANGED formVars

\* doProcess up to its first await.
doProcess ==
    /\ IF selectedImageId = ""
       THEN /\ error' = "Please select an image to process."
            /\ UNCHANGED <<processing, notice, flows>>
       ELSE IF DOMAIN parsedOps = {}
       THEN /\ error' = "Choose at least one operation."
            /\ UNCHANGED <<processing, notice, flows>>
       ELSE /\ FreeSlots # {}
            /\ processing' = TRUE
            /\ error' = ""
            /\ notice' = ""
            /\ flows' = [flows EXCEPT ![FreeSlot] = ProcessCall]
    /\ UNCHANGED <<uploading, file, images, selectedImageId>>
    /\ UNCHANGED formVars

\* doProcess from the answer of POST /images/process on.
ProcessResponse(f, res) ==
    /\ flows[f].call = "process"
    /\ IF res.type = "ok" /\ res.body # "unparseable"
       THEN /\ notice' = "Processing complete."
            /\ flows' = [flows EXCEPT ![f].call = "list", ![f].operations = NoOperations,
                                      ![f].refreshes = @ + 1]
            /\ UNCHANGED <<error, processing>>
       ELSE /\ error' = CASE res.type = "reject" -> NetworkErrorMessage
                          [] res.type = "error" -> FailureMessage(res, "Process")
                          [] OTHER -> JsonErrorMessage
            /\ processing' = FALSE
            /\ flows' = [flows EXCEPT ![f] = Idle]
            /\ UNCHANGED notice
    /\ UNCHANGED <<uploading, file, images, selectedImageId>>
    /\ UNCHANGED formVars

\* fetchImages from the answer of GET /images on, and then what its caller
\* does once `await fetchImages()` returns: doUpload selects the uploaded
\* image and clears uploading, doProcess clears processing.
ListResponse(f, res) ==
    /\ flows[f].call = "list"
    /\ images' = ListImages(res)
    /\ error' = ListError(res)
    /\ selectedImageId' = SelectionAfterList(f, res)
    /\ uploading' = UploadingAfterList(f, res)
    /\ processing' = ProcessingAfterList(f, res)
    /\ flows' = [flows EXCEPT ![f] = Idle]
    /\ UNCHANGED <<notice, file>>
    /\ UNCHANGED formVars

\* Gallery: a click on the card of an image of the list.
onSelect(id) ==
    /\ id \in Range(images.items)
    /\ selectedImageId' = id
    /\ UNCHANGED <<uploading, processing, error, notice, file, images, flows>>
    /\ UNCHANGED formVars

\* StatusBar: the Dismiss button, rendered with a non-empty error.
onClear ==
    /\ error # ""
    /\ error' = ""
    /\ notice' = ""
    /\ UNCHANGED <<uploading, processing, file, images, selectedImageId, flows>>
    /\ UNCHANGED formVars

(***************************************************************************)
(* The form handlers.  Each is followed by the render that recomputes the  *)
(* memoized parsedOps from the new form state.                             *)
(***************************************************************************)
\* The paths the form controls patch, already split at the dot.
FormPaths ==
    {<<"resize", "width">>, <<"resize", "height">>,
     <<"crop", "x">>, <<"crop", "y">>, <<"crop", "width">>, <<"crop", "height">>,
     <<"grayscale">>, <<"blur", "radius">>}

\* { [key]: value } over a group of blanks: the siblings not carried over.
Spread_Blank(group, key, value) ==
    [k \in DOMAIN group \cup {key} |-> IF k = key THEN value ELSE <<>>]

\* { ...group, [key]: value }
Spread(group, key, value) ==
    [k \in DOMAIN group \cup {key} |-> IF k = key THEN value ELSE group[k]]

PatchedOps(prev, path, value) ==
    IF Len(path) = 2
    THEN [prev EXCEPT ![path[1]] = Spread(prev[path[1]], path[2], value)]
    ELSE [prev EXCEPT ![path[1]] = value]

flowVars == <<uploading, processing, error, notice, file, images, selectedImageId, flows>>

updateOps(path, value) ==
    /\ ops' = PatchedOps(ops, path, value)
    /\ parsedOps' = ComputeParsedOps(ops', brightness, contrast)
    /\ UNCHANGED <<brightness, contrast>>
    /\ UNCHANGED flowVars

setBrightness(value) ==
    /\ brightness' = value
    /\ parsedOps' = ComputeParsedOps(ops, brightness', contrast)
    /\ UNCHANGED <<ops, contrast>>
    /\ UNCHANGED flowVars

setContrast(value) ==
    /\ contrast' = value
    /\ parsedOps' = ComputeParsedOps(ops, brightness, contrast')
    /\ UNCHANGED <<ops, brightness>>
    /\ UNCHANGED flowVars

\* resetOps without its setBrightness and setContrast.
resetOps_KeepsFactors ==
    /\ ops' = initialOps
    /\ parsedOps' = ComputeParsedOps(ops', brightness, contrast)
    /\ UNCHANGED <<brightness, contrast>>
    /\ UNCHANGED flowVars

resetOps ==
    /\ ops' = initialOps
    /\ brightness' = <<"1">>
    /\ contrast' = <<"1">>
    /\ parsedOps' = ComputeParsedOps(ops', brightness', contrast')
    /\ UNCHANGED flowVars

(***************************************************************************)
(* The application: the user's actions and the gateway's answers, in any   *)
(* order.  The form edit of this specification is the grayscale checkbox;  *)
(* the specifications of the normalizer draw the text fields.              *)
(***************************************************************************)
ChooseFile == \E picked \in Files \cup {NoFile} : onFileChange(picked)

UploadAnswers == \E f \in FlowIds : \E res \in UploadResponses : UploadResponse(f, res)

ProcessAnswers == \E f \in FlowIds : \E res \in ProcessResponses : ProcessResponse(f, res)

ListAnswers == \E f \in FlowIds : \E res \in ListResponses : ListResponse(f, res)

SelectImage == \E id \in ImageIds : onSelect(id)

EditForm == \E v \in BOOLEAN : updateOps(<<"grayscale">>, v)

\* The steps that read or write what the asynchronous handlers share.
FlowNext ==
    \/ ChooseFile
    \/ doUpload
    \/ UploadAnswers
    \/ doProcess
    \/ ProcessAnswers
    \/ ListAnswers
    \/ SelectImage
    \/ onClear

Next ==
    \/ FlowNext
    \/ EditForm
    \/ resetOps

Spec == Init /\ [][Next]_vars

\* Every gateway call is answered in the end: it resolves or it rejects.
Answer(f) ==
    \/ \E res \in UploadResponses : UploadResponse(f, res)
    \/ \E res \in ProcessResponses : ProcessResponse(f, res)
    \/ \E res \in ListResponses : ListResponse(f, res)

\* The flows under fairness of the answers.  The form handlers are left to
\* Spec: they write the form state alone, which no answer reads.
FairSpec == Init /\ [][FlowNext]_vars /\ \A f \in FlowIds : WF_vars(Answer(f))

InFlight(kind) == {f \in FlowIds : flows[f].kind = kind}

ImageIdsOf(list) == Range(list.items)

(***************************************************************************)
(* C2: doUpload with no file selected sets the error to "Please choose an  *)
(* image to upload.", dispatches no gateway call (no invocation comes in   *)
(* flight), does not set uploading, and leaves images and selectedImageId  *)
(* unchanged.                                                              *)
(***************************************************************************)
C2_UploadWithoutFile ==
    [][(doUpload /\ file = NoFile)
        => /\ error' = "Please choose an image to upload."
           /\ flows' = flows
           /\ uploading' = uploading
           /\ images' = images
           /\ selectedImageId' = selectedImageId]_vars

C2_Witness ==
    /\ error = "Please choose an image to upload."
    /\ file = NoFile
    /\ images.items # <<>>
    /\ InFlight("process") # {}

(***************************************************************************)
(* C3: doProcess with an empty selectedImageId sets the error to "Please   *)
(* select an image to process." whatever the operation set is, dispatches  *)
(* no gateway call, does not set processing, and leaves images,            *)
(* selectedImageId and the form state unchanged.                           *)
(***************************************************************************)
C3_ProcessWithoutSelection ==
    [][(doProcess /\ selectedImageId = "")
        => /\ error' = "Please select an image to process."
           /\ flows' = flows
           /\ processing' = processing
           /\ images' = images
           /\ selectedImageId' = selectedImageId
           /\ <<ops, brightness, contrast, parsedOps>>' = <<ops, brightness, contrast, parsedOps>>]_vars

C3_Witness ==
    /\ error = "Please select an image to process."
    /\ selectedImageId = ""
    /\ ops.grayscale = TRUE
    /\ InFlight("upload") # {}

(***************************************************************************)
(* C1: under FairSpec (every gateway call is answered), every upload and   *)
(* every process invocation in flight concludes; the step that concludes   *)
(* it, whatever the answer was, leaves its busy flag false; and the flag   *)
(* is false whenever no invocation of that flow is in flight.              *)
(***************************************************************************)
C1_BusyFlagReleased ==
    /\ \A f \in FlowIds : (flows[f].kind \in {"upload", "process"}) ~> (flows[f] = Idle)
    /\ [][\A f \in FlowIds :
            /\ (flows[f].kind = "upload" /\ flows'[f].kind # "upload") => ~uploading'
            /\ (flows[f].kind = "process" /\ flows'[f].kind # "process") => ~processing']_vars
    /\ [](InFlight("upload") = {} => ~uploading)
    /\ [](InFlight("process") = {} => ~processing)

\* An upload whose nested list refresh failed has concluded.
C1_Witness ==
    /\ notice = "Upload successful."
    /\ error = "Failed to list images (500)"
    /\ InFlight("upload") = {}
    /\ ~uploading

(***************************************************************************)
(* C4 as claimed: selectedImageId is empty or the image_id of an entry of  *)
(* images.                                                                 *)
(***************************************************************************)
C4_SelectionInImages == selectedImageId = "" \/ selectedImageId \in ImageIdsOf(images)

(***************************************************************************)
(* C4 as amended: selectedImageId changes only to the image_id of an entry *)
(* images holds at that moment (a user's selection, a refresh's            *)
(* auto-select) or, when an upload concludes, to the image_id the upload   *)
(* returned; it is never emptied, and no refresh reconciles it.            *)
(***************************************************************************)
C4_SelectionSetFromImagesOrUpload ==
    [][selectedImageId' # selectedImageId
        => \/ selectedImageId' \in ImageIdsOf(images')
           \/ \E f \in FlowIds :
                /\ flows[f].kind = "upload" /\ flows[f].call = "list"
                /\ flows'[f] = Idle
                /\ selectedImageId' = flows[f].data]_vars

\* The user has selected the second image of the list.
C4_Witness ==
    /\ Len(images.items) = 2
    /\ selectedImageId = images.items[2]
    /\ \A f \in FlowIds : flows[f] = Idle

(***************************************************************************)
(* C5 as claimed: a list refresh that completes (the mount effect's, or    *)
(* doProcess's) changes selectedImageId only when selectedImageId is empty *)
(* at that moment and the list is non-empty, and then to the first         *)
(* entry's image_id.                                                       *)
(***************************************************************************)
C5_RefreshKeepsSelection ==
    [][\A f \in FlowIds : flows[f].call = "list" => \A res \in ListResponses :
            (ListResponse(f, res) /\ flows[f].kind # "upload")
            => selectedImageId' =
                 IF selectedImageId = "" /\ res.type = "ok" /\ res.body = "array" /\ res.items # <<>>
                 THEN res.items[1]
                 ELSE selectedImageId]_vars

(***************************************************************************)
(* C6 as claimed: a list refresh that fails (a rejected request, a non-2xx *)
(* response, a 2xx response whose body is no list) leaves images as they   *)
(* were, leaves selectedImageId as it was (but for the upload that selects *)
(* its image afterwards), and sets a non-empty error.                      *)
(***************************************************************************)
C6_FailedRefreshKeepsList ==
    [][\A f \in FlowIds : flows[f].call = "list" => \A res \in ListResponses :
            (ListResponse(f, res) /\ ~(res.type = "ok" /\ res.body = "array"))
            => /\ images' = images
               /\ flows[f].kind # "upload" => selectedImageId' = selectedImageId
               /\ error' # ""]_vars

(***************************************************************************)
(* C7 as claimed: when an upload concludes after the gateway upload        *)
(* succeeded, selectedImageId is the image_id the upload returned, the     *)
(* file is cleared, the notice is "Upload successful." and the invocation  *)
(* issued one list refresh.                                                *)
(***************************************************************************)
C7_UploadConcludes ==
    [][\A f \in FlowIds : flows[f].call = "list" => \A res \in ListResponses :
            (ListResponse(f, res) /\ flows[f].kind = "upload")
            => /\ selectedImageId' = flows[f].data
               /\ file' = NoFile
               /\ notice' = "Upload successful."
               /\ flows[f].refreshes = 1]_vars

(***************************************************************************)
(* C7 as amended: the answer of a successful upload sets the notice to     *)
(* "Upload successful.", clears the file and issues the invocation's one   *)
(* list refresh, leaving the selection as it is; when that refresh         *)
(* completes, whatever it returned or auto-selected, the invocation        *)
(* concludes with selectedImageId the returned image_id and with one       *)
(* refresh issued.  The notice and the file are not set again at the       *)
(* conclusion: a file chosen, a dismissal or another flow's start in       *)
(* between shows.                                                          *)
(***************************************************************************)
C7_UploadSucceedsThenSelects ==
    [][/\ \A f \in FlowIds : flows[f].call = "upload" => \A res \in UploadResponses :
            (UploadResponse(f, res) /\ res.type = "ok" /\ res.body = "image")
            => /\ notice' = "Upload successful."
               /\ file' = NoFile
               /\ flows'[f].call = "list" /\ flows'[f].refreshes = 1
               /\ flows'[f].data = res.image_id
               /\ selectedImageId' = selectedImageId
               /\ images' = images
       /\ \A f \in FlowIds : flows[f].call = "list" => \A res \in ListResponses :
            (ListResponse(f, res) /\ flows[f].kind = "upload")
            => /\ selectedImageId' = flows[f].data
               /\ flows[f].refreshes = 1
               /\ flows'[f] = Idle
               /\ notice' = notice /\ file' = file]_vars

\* An upload has concluded with its image selected though the refresh it
\* issued returned a list without that image.
C7_Witness ==
    /\ notice = "Upload successful."
    /\ file = NoFile
    /\ images.items = <<"img-2">>
    /\ selectedImageId = "img-1"
    /\ error = ""
    /\ \A f \in FlowIds : flows[f] = Idle

(***************************************************************************)
(* C8: doProcess with a selection dispatches one process call carrying the *)
(* selected image id and the current normalized operation set; the answer  *)
(* of a successful call sets the notice to "Processing complete." and      *)
(* issues the invocation's one list refresh; when that refresh completes   *)
(* the invocation concludes with processing false.                         *)
(***************************************************************************)
OthersKept(f) == \A g \in FlowIds \ {f} : flows'[g] = flows[g]

C8_ProcessSucceeds ==
    [][/\ (doProcess /\ selectedImageId # "")
            => \E f \in FlowIds :
                 /\ flows[f] = Idle
                 /\ flows'[f].call = "process"
                 /\ flows'[f].selectedImageId = selectedImageId
                 /\ flows'[f].operations = parsedOps
                 /\ flows'[f].refreshes = 0
                 /\ OthersKept(f)
                 /\ processing'
       /\ \A f \in FlowIds : flows[f].call = "process" => \A res \in ProcessResponses :
            (ProcessResponse(f, res) /\ res.type = "ok" /\ res.body # "unparseable")
            => /\ notice' = "Processing complete."
               /\ flows'[f].call = "list" /\ flows'[f].refreshes = 1
               /\ OthersKept(f)
       /\ \A f \in FlowIds : flows[f].call = "list" => \A res \in ListResponses :
            (ListResponse(f, res) /\ flows[f].kind = "process")
            => /\ ~processing'
               /\ flows[f].refreshes = 1
               /\ flows'[f] = Idle
               /\ OthersKept(f)]_vars

\* A process of the grayscale operation has concluded, its refresh done.
C8_Witness ==
    /\ notice = "Processing complete."
    /\ error = ""
    /\ parsedOps.grayscale = TRUE
    /\ ~processing
    /\ \A f \in FlowIds : flows[f] = Idle

(***************************************************************************)
(* C9 as claimed: a failed gateway call of an upload or a process (a       *)
(* non-2xx response or a rejected request) concludes the invocation with   *)
(* its busy flag false, no list refresh issued, images, selectedImageId    *)
(* and the notice left as they were (the start of the invocation leaves    *)
(* images and selectedImageId alone too), and the error set to the         *)
(* response's detail when it has one and else to "Upload failed (code)" /  *)
(* "Process failed (code)" with the status code.                           *)
(***************************************************************************)
GatewayFailure(res) == res.type \in {"reject", "error"}

FailureFrame(f) ==
    /\ flows'[f] = Idle
    /\ flows[f].refreshes = 0
    /\ OthersKept(f)
    /\ images' = images
    /\ selectedImageId' = selectedImageId
    /\ notice' = notice

DetailOrFallback(res, what) ==
    IF res.body = "detail" /\ res.detail # ""
    THEN res.detail
    ELSE what \o " failed (" \o ToString(res.status) \o ")"

StartFrame == images' = images /\ selectedImageId' = selectedImageId

C9_FailureMessageFromResponse ==
    [][/\ (doUpload \/ doProcess) => StartFrame
       /\ \A f \in FlowIds : flows[f].call = "upload" => \A res \in UploadResponses :
            (UploadResponse(f, res) /\ GatewayFailure(res))
            => FailureFrame(f) /\ ~uploading' /\ error' = DetailOrFallback(res, "Upload")
       /\ \A f \in FlowIds : flows[f].call = "process" => \A res \in ProcessResponses :
            (ProcessResponse(f, res) /\ GatewayFailure(res))
            => FailureFrame(f) /\ ~processing' /\ error' = DetailOrFallback(res, "Process")]_vars

(***************************************************************************)
(* C9 as amended: the same, but the error is the detail or the fallback    *)
(* with the status code for a non-2xx response only; a rejected request    *)
(* has no response and no status code, and the error is then the           *)
(* rejection's own message.                                                *)
(***************************************************************************)
FailureError(res, what) ==
    IF res.type = "reject" THEN NetworkErrorMessage ELSE DetailOrFallback(res, what)

C9_FailureLeavesSession ==
    [][/\ (doUpload \/ doProcess) => StartFrame
       /\ \A f \in FlowIds : flows[f].call = "upload" => \A res \in UploadResponses :
            (UploadResponse(f, res) /\ GatewayFailure(res))
            => FailureFrame(f) /\ ~uploading' /\ error' = FailureError(res, "Upload")
       /\ \A f \in FlowIds : flows[f].call = "process" => \A res \in ProcessResponses :
            (ProcessResponse(f, res) /\ GatewayFailure(res))
            => FailureFrame(f) /\ ~processing' /\ error' = FailureError(res, "Process")]_vars

\* A process has failed with a response that carries no detail.
C9_Witness ==
    /\ error = "Process failed (500)"
    /\ ~processing
    /\ selectedImageId # ""
    /\ images.items # <<>>
    /\ InFlight("process") = {}

(***************************************************************************)
(* The normalizer on the resize fields: every pair of texts in the width   *)
(* and height fields of a form otherwise untouched, then the handlers that *)
(* render it again.                                                        *)
(***************************************************************************)
ResizeInit ==
    /\ \E w \in Texts : \E h \in Texts :
         ops = [initialOps EXCEPT !.resize = [width |-> w, height |-> h]]
    /\ brightness = <<"1">>
    /\ contrast = <<"1">>
    /\ parsedOps = ComputeParsedOps(ops, brightness, contrast)
    /\ uploading = FALSE
    /\ processing = FALSE
    /\ error = ""
    /\ notice = ""
    /\ file = NoFile
    /\ images = JsonArray(<<>>)
    /\ selectedImageId = ""
    /\ flows = [f \in FlowIds |-> IF f = 1 THEN MountFlow ELSE Idle]

ResizeNext == EditForm \/ resetOps

ResizeSpec == ResizeInit /\ [][ResizeNext]_vars

(***************************************************************************)
(* C10: the normalized operation set holds resize exactly when the width   *)
(* text and the height text each denote a finite number whose integer      *)
(* part is at least 1, and then with those integer parts; empty,           *)
(* non-numeric, zero, negative, infinite and below-1 texts leave it out.   *)
(***************************************************************************)
IntegerPart(v) == [k |-> "num", m |-> Number(v).m \div Pow10(Number(v).d), d |-> 0]

ParsesToPositiveInteger(v) == Number(v).k = "num" /\ IntegerPart(v).m >= 1

C10_ResizeIffBothPositive ==
    IF ParsesToPositiveInteger(ops.resize.width) /\ ParsesToPositiveInteger(ops.resize.height)
    THEN /\ "resize" \in DOMAIN parsedOps
         /\ parsedOps.resize = [width |-> IntegerPart(ops.resize.width),
                                height |-> IntegerPart(ops.resize.height)]
    ELSE "resize" \notin DOMAIN parsedOps

\* A fractional width above 1 and a height with a leading zero: resize is
\* there, with 1 and 11.
C10_Witness ==
    /\ ops.resize.width = <<"1", ".", "1">>
    /\ ops.resize.height = <<"0", "1", "1">>
    /\ ops.grayscale = TRUE
    /\ "resize" \in DOMAIN parsedOps
    /\ parsedOps.resize.width.m = 1
    /\ parsedOps.resize.height.m = 11

(***************************************************************************)
(* The session as the mount effect leaves it: nothing uploaded, nothing    *)
(* selected, the first list request in flight.                             *)
(***************************************************************************)
SessionAtMount ==
    /\ uploading = FALSE
    /\ processing = FALSE
    /\ error = ""
    /\ notice = ""
    /\ file = NoFile
    /\ images = JsonArray(<<>>)
    /\ selectedImageId = ""
    /\ flows = [f \in FlowIds |-> IF f = 1 THEN MountFlow ELSE Idle]

(***************************************************************************)
(* The normalizer on the crop fields: every combination of four texts in   *)
(* x, y, width and height of a form otherwise untouched.  The texts are    *)
(* the shortest ones and one of each kind the parse tells apart.           *)
(***************************************************************************)
CropTexts ==
    {t \in Texts : Len(t) <= 1}
    \cup {<<"-", "1">>, <<".", "1">>, <<"1", ".", "1">>, InfinityText}

CropInit ==
    /\ \E x \in CropTexts : \E y \in CropTexts : \E w \in CropTexts : \E h \in CropTexts :
         ops = [initialOps EXCEPT !.crop = [x |-> x, y |-> y, width |-> w, height |-> h]]
    /\ brightness = <<"1">>
    /\ contrast = <<"1">>
    /\ parsedOps = ComputeParsedOps(ops, brightness, contrast)
    /\ SessionAtMount

CropNext == EditForm \/ resetOps

CropSpec == CropInit /\ [][CropNext]_vars

(***************************************************************************)
(* C11 as claimed: the normalized operation set holds crop exactly when x  *)
(* and y are each a text that is filled in and denotes a finite number     *)
(* that is at least 0, and width and height each denote a finite number    *)
(* whose integer part is at least 1, and then with the integer parts; a    *)
(* field left empty, like any other failing field, leaves crop out.        *)
(***************************************************************************)
FilledNonNegative(v) == v # <<>> /\ Number(v).k = "num" /\ Number(v).m >= 0

C11_CropIffAllFourValidate ==
    IF /\ FilledNonNegative(ops.crop.x)
       /\ FilledNonNegative(ops.crop.y)
       /\ ParsesToPositiveInteger(ops.crop.width)
       /\ ParsesToPositiveInteger(ops.crop.height)
    THEN /\ "crop" \in DOMAIN parsedOps
         /\ parsedOps.crop = [x |-> IntegerPart(ops.crop.x), y |-> IntegerPart(ops.crop.y),
                              width |-> IntegerPart(ops.crop.width),
                              height |-> IntegerPart(ops.crop.height)]
    ELSE "crop" \notin DOMAIN parsedOps

(***************************************************************************)
(* The normalizer on brightness and contrast: every pair of texts in the   *)
(* two fields of a form otherwise untouched.                               *)
(***************************************************************************)
FactorInit ==
    /\ ops = initialOps
    /\ brightness \in Texts
    /\ contrast \in Texts
    /\ parsedOps = ComputeParsedOps(ops, brightness, contrast)
    /\ SessionAtMount

FactorNext == EditForm \/ resetOps

FactorSpec == FactorInit /\ [][FactorNext]_vars

(***************************************************************************)
(* C12 as claimed: the normalized operation set holds brightness (resp.    *)
(* contrast) exactly when the text denotes a finite number that is above 0 *)
(* and is not 1, and then with that number as the factor; 1, zero,         *)
(* negatives, non-numeric texts and the infinities leave it out, whatever  *)
(* the other field and the checkbox hold.                                  *)
(***************************************************************************)
FiniteFactor(v) == Number(v).k = "num" /\ Number(v).m > 0 /\ Number(v) # One

C12_FactorIffFiniteNotOne ==
    /\ IF FiniteFactor(brightness)
       THEN "brightness" \in DOMAIN parsedOps /\ parsedOps.brightness = [factor |-> Number(brightness)]
       ELSE "brightness" \notin DOMAIN parsedOps
    /\ IF FiniteFactor(contrast)
       THEN "contrast" \in DOMAIN parsedOps /\ parsedOps.contrast = [factor |-> Number(contrast)]
       ELSE "contrast" \notin DOMAIN parsedOps

(***************************************************************************)
(* The form: every control of the sidebar's operation panels, the Reset    *)
(* button, and beside them the file input and the upload handler, so that  *)
(* the form is edited and reset with an upload in flight as well.  Each    *)
(* text field takes the empty text and one number.                         *)
(***************************************************************************)
FormTexts == {<<>>, <<"2">>}

FormValues(path) == IF path = <<"grayscale">> THEN BOOLEAN ELSE FormTexts

EditField == \E path \in FormPaths : \E value \in FormValues(path) : updateOps(path, value)

EditBrightness == \E value \in FormTexts : setBrightness(value)

EditContrast == \E value \in FormTexts : setContrast(value)

FormNext ==
    \/ EditField
    \/ EditBrightness
    \/ EditContrast
    \/ resetOps
    \/ ChooseFile
    \/ doUpload

FormSpec == Init /\ [][FormNext]_vars

(***************************************************************************)
(* C13: a step of resetOps leaves resize, crop, grayscale, blur,           *)
(* brightness and contrast at their initial values (empty texts, an        *)
(* unticked checkbox, factors "1") whatever they held and whether or not   *)
(* an invocation is in flight, and leaves images, selectedImageId, file,   *)
(* error, notice, both busy flags and the invocations in flight as they    *)
(* were.                                                                   *)
(***************************************************************************)
C13_ResetRestoresDefaults ==
    [][resetOps
        => /\ ops'.resize = [width |-> <<>>, height |-> <<>>]
           /\ ops'.crop = [x |-> <<>>, y |-> <<>>, width |-> <<>>, height |-> <<>>]
           /\ ops'.grayscale = FALSE
           /\ ops'.blur = [radius |-> <<>>]
           /\ brightness' = <<"1">>
           /\ contrast' = <<"1">>
           /\ parsedOps' = [key \in {"grayscale"} |-> FALSE]
           /\ <<images, selectedImageId, file, error, notice>>' = <<images, selectedImageId, file, error, notice>>
           /\ <<uploading, processing, flows>>' = <<uploading, processing, flows>>]_vars

\* The form is at its defaults with an upload in flight.
C13_Witness ==
    /\ ops = initialOps
    /\ brightness = <<"1">>
    /\ contrast = <<"1">>
    /\ uploading
    /\ InFlight("upload") # {}
    /\ file = NoFile

(***************************************************************************)
(* C14: the normalized operation set always holds the key grayscale, with  *)
(* the boolean of the checkbox, and holds no key but grayscale, blur,      *)
(* resize, crop, brightness and contrast, whatever the text fields hold.   *)
(***************************************************************************)
C14_GrayscaleAlwaysPresent ==
    /\ "grayscale" \in DOMAIN parsedOps
    /\ parsedOps.grayscale \in BOOLEAN
    /\ parsedOps.grayscale = ops.grayscale
    /\ DOMAIN parsedOps \subseteq {"grayscale", "blur", "resize", "crop", "brightness", "contrast"}

\* An unticked checkbox beside a valid blur, half a resize and invalid
\* factors: grayscale false is there with blur.
C14_Witness ==
    /\ ops.grayscale = FALSE
    /\ ops.blur.radius = <<"2">>
    /\ ops.resize.width = <<"2">>
    /\ ops.resize.height = <<>>
    /\ brightness = <<>>
    /\ contrast = <<>>
    /\ DOMAIN parsedOps = {"grayscale", "blur"}
    /\ parsedOps.grayscale = FALSE

(***************************************************************************)
(* C18: a step of updateOps for a path of the form and a value replaces    *)
(* the addressed leaf by the value and leaves every other leaf of ops      *)
(* (the siblings of the group, the other groups, the flags), the shape of  *)
(* ops, brightness, contrast, images, selectedImageId, file, error,        *)
(* notice, the busy flags and the invocations in flight as they were.      *)
(***************************************************************************)
OpsLeaves == FormPaths \cup {<<"sepia">>}

Leaf(o, path) == IF Len(path) = 2 THEN o[path[1]][path[2]] ELSE o[path[1]]

SameShape(o, p) ==
    /\ DOMAIN o = DOMAIN p
    /\ \A group \in {"resize", "crop", "blur"} : DOMAIN o[group] = DOMAIN p[group]

C18_PatchReplacesLeafOnly ==
    [][\A path \in FormPaths : \A value \in FormValues(path) :
            updateOps(path, value)
            => /\ Leaf(ops', path) = value
               /\ \A other \in OpsLeaves \ {path} : Leaf(ops', other) = Leaf(ops, other)
               /\ SameShape(ops', ops)
               /\ <<brightness, contrast>>' = <<brightness, contrast>>
               /\ <<images, selectedImageId, file, error, notice>>' = <<images, selectedImageId, file, error, notice>>
               /\ <<uploading, processing, flows>>' = <<uploading, processing, flows>>]_vars

\* One leaf of each group patched beside untouched siblings, the checkbox
\* ticked, the factors as they were.
C18_Witness ==
    /\ ops.resize = [width |-> <<"2">>, height |-> <<>>]
    /\ ops.crop = [x |-> <<>>, y |-> <<"2">>, width |-> <<>>, height |-> <<"2">>]
    /\ ops.grayscale = TRUE
    /\ ops.sepia = FALSE
    /\ ops.blur = [radius |-> <<>>]
    /\ brightness = <<"1">>
    /\ contrast = <<"1">>

(***************************************************************************)
(* C19: every raw operation field always has a value: ops keeps its five   *)
(* keys and each group its keys, every field of a group, brightness and    *)
(* contrast hold a text (possibly empty), grayscale holds a boolean, and   *)
(* the normalized operation set is the normalizer's value on them.         *)
(***************************************************************************)
Characters == Alphabet \cup Digits \cup {"a", "b", "c", "+", "I", "n", "f", "i", "t", "y"}

IsText(v) == \A i \in 1..Len(v) : v[i] \in Characters

C19_RawFieldsDefined ==
    /\ DOMAIN ops = {"resize", "crop", "grayscale", "sepia", "blur"}
    /\ DOMAIN ops.resize = {"width", "height"}
    /\ DOMAIN ops.crop = {"x", "y", "width", "height"}
    /\ DOMAIN ops.blur = {"radius"}
    /\ \A path \in FormPaths \ {<<"grayscale">>} : IsText(Leaf(ops, path))
    /\ ops.grayscale \in BOOLEAN
    /\ IsText(brightness)
    /\ IsText(contrast)
    /\ parsedOps = ComputeParsedOps(ops, brightness, contrast)

\* Fields filled in and emptied again, every group still whole.
C19_Witness ==
    /\ ops.blur.radius = <<"2">>
    /\ ops.resize = [width |-> <<>>, height |-> <<"2">>]
    /\ ops.crop = [x |-> <<"2">>, y |-> <<>>, width |-> <<"2">>, height |-> <<>>]
    /\ ops.grayscale = TRUE
    /\ brightness = <<>>
    /\ contrast = <<"2">>
    /\ "contrast" \in DOMAIN parsedOps

(***************************************************************************)
(* The application as its controls let it run: doUpload and doProcess are  *)
(* the onClick handlers of two buttons, and a button that is rendered      *)
(* disabled dispatches no click.                                           *)
(***************************************************************************)
\* The Upload button rendered disabled only while no file is selected.
UploadButtonDisabled_NoFileOnly == file = NoFile

\* disabled={uploading || !file}
UploadButtonDisabled == uploading \/ file = NoFile

\* disabled={processing || !hasImage}, hasImage={!!selectedImageId}
ApplyButtonDisabled == processing \/ selectedImageId = ""

onUpload == ~UploadButtonDisabled /\ doUpload

onProcess == ~ApplyButtonDisabled /\ doProcess

UINext ==
    \/ ChooseFile
    \/ onUpload
    \/ UploadAnswers
    \/ onProcess
    \/ ProcessAnswers
    \/ ListAnswers
    \/ SelectImage
    \/ onClear

UISpec == Init /\ [][UINext]_vars

(***************************************************************************)
(* C15: with the buttons as rendered, at most one upload invocation and at *)
(* most one process invocation is in flight at any time, and from the      *)
(* dispatch of its gateway call to its conclusion uploading (resp.         *)
(* processing) is true, which keeps the button that starts it disabled.    *)
(***************************************************************************)
C15_OneInvocationPerFlow ==
    /\ Cardinality(InFlight("upload")) <= 1
    /\ Cardinality(InFlight("process")) <= 1
    /\ InFlight("upload") # {} => uploading /\ UploadButtonDisabled
    /\ InFlight("process") # {} => processing /\ ApplyButtonDisabled

\* An upload awaiting its refresh and a process awaiting its call, a new
\* file already chosen and an image selected: only the busy flags keep the
\* two buttons disabled.
C15_Witness ==
    /\ \E f \in FlowIds : flows[f].kind = "upload" /\ flows[f].call = "list"
    /\ \E f \in FlowIds : flows[f].kind = "process" /\ flows[f].call = "process"
    /\ file # NoFile
    /\ selectedImageId # ""
    /\ uploading
    /\ processing

(***************************************************************************)
(* C16 as claimed: whichever invocations' list refreshes overlap and in    *)
(* whatever order they complete, images is the list of the refresh that    *)
(* completed last with success: a refresh that completes with a list sets  *)
(* images to it, a refresh that fails leaves images as they were, and no   *)
(* other step changes images; and the invocation whose refresh completes   *)
(* concludes with its busy flag false.                                     *)
(***************************************************************************)
ListCompletes == \E f \in FlowIds : flows[f].call = "list" /\ flows'[f] = Idle

C16_LastCompletedRefreshWins ==
    [][/\ \A f \in FlowIds : flows[f].call = "list" => \A res \in ListResponses :
            ListResponse(f, res)
            => /\ images' = IF res.type = "ok" /\ res.body = "array"
                            THEN JsonArray(res.items)
                            ELSE images
               /\ flows'[f] = Idle
               /\ flows[f].kind = "upload" => ~uploading'
               /\ flows[f].kind = "process" => ~processing'
       /\ ~ListCompletes => images' = images]_vars

(***************************************************************************)
(* C17: the error is never "Choose at least one operation.", the           *)
(* normalized operation set is never empty, and doProcess with a selection *)
(* and the untouched form (grayscale false alone) sets processing and      *)
(* dispatches the process call with that operation set.                    *)
(***************************************************************************)
GrayscaleFalseOnly == [key \in {"grayscale"} |-> FALSE]

C17_EmptinessNeverRejects ==
    /\ [](error # "Choose at least one operation.")
    /\ [](DOMAIN parsedOps # {})
    /\ [][(doProcess /\ selectedImageId # "" /\ parsedOps = GrayscaleFalseOnly)
            => /\ processing'
               /\ error' = ""
               /\ \E f \in FlowIds :
                    /\ flows[f] = Idle
                    /\ flows'[f].call = "process"
                    /\ flows'[f].operations = GrayscaleFalseOnly]_vars

\* A process call is in flight that carries grayscale false alone.
C17_Witness ==
    /\ \E f \in FlowIds : flows[f].call = "process" /\ flows[f].operations = GrayscaleFalseOnly
    /\ ops = initialOps
    /\ processing
    /\ error = ""
====
